---- MODULE Spec2Model ----
(***************************************************************************)
(* AutoMatch: the matching and settlement engine of a ticket-resale        *)
(* marketplace.  Buyers post offers, sellers post listings; a settlement   *)
(* pairs one offer with one listing, captures the buyer's payment hold and *)
(* creates a Transaction, which then moves through delivery, escrow and    *)
(* payout.                                                                 *)
(*                                                                         *)
(* Every request handler is an async function: between two awaits other    *)
(* handlers run.  A handler is therefore modelled as a request record in   *)
(* the bag reqs that advances one atomic step per store or gateway         *)
(* round trip; what it loaded at an earlier step is kept in the record.    *)
(***************************************************************************)
EXTENDS Integers, Sequences, FiniteSets, Bags, TLC

VARIABLES
  offers,     \* BuyerOffer collection, in creation order (index = _id)
  listings,   \* SellerListing collection, in creation order (index = _id)
  txs,        \* Transaction collection, in creation order (index = _id)
  holds,      \* payment gateway: state of each offer's PaymentIntent
  transfers,  \* payment gateway: transfers created per Transaction
  reqs,       \* bag of in-flight requests (handlers suspended at an await)
  now,        \* wall clock, read by new Date()
  last        \* the response or handler outcome produced by the latest step

vars == << offers, listings, txs, holds, transfers, reqs, now, last >>

----------------------------------------------------------------------------
(* Bounds of the model.                                                    *)

MaxOffers   == 2    \* offers ever created
MaxListings == 1    \* listings on sale or in draft at the same time
MaxInFlight == 2    \* handlers suspended at an await at the same time
MaxTime     == 3    \* the clock runs 0..MaxTime

(* The single catalog event takes place one tick before the end of the     *)
(* clock, so that states after the event exist.                            *)
EventTime == MaxTime - 1

----------------------------------------------------------------------------
(* JavaScript Number: IEEE-754 binary64, round-to-nearest-even.            *)
(* A positive double is [m, e] with value m * 2^e, m a MantBits-bit        *)
(* integer held as little-endian limbs of LimbBits bits (TLC's integers    *)
(* are 32-bit, so the 106-bit products are computed limb by limb).         *)

MantBits == 53
LimbBits == 14
Base == 2 ^ LimbBits

RECURSIVE BigOf(_)
BigOf(n) == IF n = 0 THEN << >> ELSE << n % Base >> \o BigOf(n \div Base)

RECURSIVE BigTrim(_)
BigTrim(a) ==
  IF a = << >> \/ a[Len(a)] # 0 THEN a ELSE BigTrim(SubSeq(a, 1, Len(a) - 1))

RECURSIVE BigAddC(_, _, _)
BigAddC(a, b, c) ==
  IF a = << >> /\ b = << >>
  THEN (IF c = 0 THEN << >> ELSE << c >>)
  ELSE LET x == IF a = << >> THEN 0 ELSE Head(a)
           y == IF b = << >> THEN 0 ELSE Head(b)
           s == x + y + c
       IN  << s % Base >> \o BigAddC(IF a = << >> THEN a ELSE Tail(a),
                                     IF b = << >> THEN b ELSE Tail(b),
                                     s \div Base)

BigAdd(a, b) == BigAddC(a, b, 0)

RECURSIVE BigMulLimb(_, _, _)
BigMulLimb(a, d, c) ==
  IF a = << >>
  THEN (IF c = 0 THEN << >> ELSE << c >>)
  ELSE LET s == Head(a) * d + c
       IN  << s % Base >> \o BigMulLimb(Tail(a), d, s \div Base)

RECURSIVE BigMul(_, _)
BigMul(a, b) ==
  IF b = << >> THEN << >>
  ELSE BigAdd(BigMulLimb(a, Head(b), 0), << 0 >> \o BigMul(a, Tail(b)))

BitLen(a) ==
  LET t == BigTrim(a)
  IN  IF t = << >> THEN 0
      ELSE (Len(t) - 1) * LimbBits
           + (CHOOSE k \in 1..LimbBits :
                2 ^ (k - 1) <= t[Len(t)] /\ t[Len(t)] < 2 ^ k)

Bit(a, i) ==
  IF i \div LimbBits + 1 > Len(a) THEN 0
  ELSE (a[i \div LimbBits + 1] \div (2 ^ (i % LimbBits))) % 2

ShiftRight(a, d) ==
  LET q == d \div LimbBits
      r == d % LimbBits
  IN  BigTrim([i \in 1..(Len(a) - q) |->
                 (a[i + q] \div (2 ^ r))
                 + (IF i + q + 1 <= Len(a)
                    THEN (a[i + q + 1] % (2 ^ r)) * (2 ^ (LimbBits - r))
                    ELSE 0)])

ShiftLeft(a, d) ==
  [i \in 1..(d \div LimbBits) |-> 0] \o BigMulLimb(a, 2 ^ (d % LimbBits), 0)

(* Round the integer a (times 2^e) to MantBits significant bits, ties to   *)
(* even: what every binary64 operation does with its exact result.         *)
RoundNearestEven(a, e) ==
  LET n == BitLen(a)
  IN  IF n <= MantBits
      THEN [m |-> BigTrim(ShiftLeft(BigTrim(a), MantBits - n)),
            e |-> e - (MantBits - n)]
      ELSE LET d      == n - MantBits
               kept   == ShiftRight(a, d)
               guard  == Bit(a, d - 1)
               sticky == \E i \in 0..(d - 2) : Bit(a, i) = 1
               up     == guard = 1 /\ (sticky \/ kept[1] % 2 = 1)
               r      == IF up THEN BigAdd(kept, << 1 >>) ELSE kept
           IN  IF BitLen(r) > MantBits
               THEN [m |-> ShiftRight(r, 1), e |-> e + d + 1]
               ELSE [m |-> r, e |-> e + d]

(* An integer-valued Number (a whole-dollar price) as a double.            *)
FromInt(n) == RoundNearestEven(BigOf(n), 0)

(* x * y and x + y of two positive doubles.                                *)
FMul(x, y) == RoundNearestEven(BigMul(x.m, y.m), x.e + y.e)

FAdd(x, y) ==
  LET lo == IF x.e <= y.e THEN x ELSE y
      hi == IF x.e <= y.e THEN y ELSE x
  IN  RoundNearestEven(BigAdd(ShiftLeft(hi.m, hi.e - lo.e), lo.m), lo.e)

RECURSIVE BigSubB(_, _, _)
BigSubB(a, b, c) ==
  IF a = << >> THEN << >>
  ELSE LET y == IF b = << >> THEN 0 ELSE Head(b)
           s == Head(a) - y - c
       IN  << s % Base >> \o BigSubB(Tail(a), IF b = << >> THEN b ELSE Tail(b),
                                     IF s < 0 THEN 1 ELSE 0)

(* x - y of two positive doubles with x > y.                               *)
FSub(x, y) ==
  LET lo == IF x.e <= y.e THEN x.e ELSE y.e
  IN  RoundNearestEven(BigSubB(ShiftLeft(x.m, x.e - lo),
                               ShiftLeft(y.m, y.e - lo), 0), lo)

RECURSIVE HexBig(_)
HexBig(h) ==
  IF h = << >> THEN << >>
  ELSE BigAdd(BigMulLimb(HexBig(SubSeq(h, 1, Len(h) - 1)), 16, 0),
              BigOf(h[Len(h)]))

(* The literals 0.1 = 0x1.999999999999ap-4 and 0.9 = 0x1.ccccccccccccdp-1. *)
FeeRate    == [m |-> HexBig(<<1, 9, 9, 9, 9, 9, 9, 9, 9, 9, 9, 9, 9, 10>>),
               e |-> -56]
PayoutRate == [m |-> HexBig(<<1, 12, 12, 12, 12, 12, 12, 12, 12, 12, 12, 12, 12, 13>>),
               e |-> -53]

----------------------------------------------------------------------------
(* Documents.                                                              *)

Sections == {"A", "B"}

(* An optional Number, Date or reference that was not supplied             *)
(* (undefined): it is falsy in  a || b  and matches no $lte / $gte.        *)
Absent == -1

(* expiresAt.setHours(expiresAt.getHours() - 1): one tick is one hour.     *)
ExpiryLeadHours == 1

(* Request bodies of POST /offers accepted by validateOffer.               *)
OfferInputs ==
  { [sections |-> {"A"},      maxPrice |-> 200, quantity |-> 2],
    [sections |-> {"A", "B"}, maxPrice |-> 13,  quantity |-> 1] }

(* Request bodies of POST /listings accepted by validateListing.           *)
ListingInputs ==
  { [section |-> "A", quantity |-> 2, askingPrice |-> 250,
     minimumAcceptablePrice |-> 150, goLiveAt |-> Absent,
     autoSell |-> [enabled |-> FALSE, triggerTime |-> Absent,
                   acceptHighestOffer |-> TRUE]],
    [section |-> "B", quantity |-> 1, askingPrice |-> 100,
     minimumAcceptablePrice |-> Absent, goLiveAt |-> Absent,
     autoSell |-> [enabled |-> TRUE, triggerTime |-> 1,
                   acceptHighestOffer |-> TRUE]] }

(* The amount of the hold authorized in createOffer, in dollars            *)
(* (paymentIntent.amount; the gateway is given it in cents).  A capture    *)
(* without amount_to_capture captures the amount authorized.               *)
AuthorizedAmount(offer) == offer.maxPrice * offer.quantity

(* new BuyerOffer({...}) in createOffer, schema defaults applied.          *)
NewOffer(in) ==
  [sections       |-> in.sections,
   maxPrice       |-> in.maxPrice,
   quantity       |-> in.quantity,
   piStatus       |-> "authorized",
   status         |-> "active",
   matchedListing |-> Absent,
   expiresAt      |-> EventTime - ExpiryLeadHours]

(* new SellerListing({...}) in createListing, schema defaults applied.     *)
NewListing(in) ==
  [section                |-> in.section,
   quantity               |-> in.quantity,
   askingPrice            |-> in.askingPrice,
   minimumAcceptablePrice |-> in.minimumAcceptablePrice,
   status                 |-> IF in.goLiveAt # Absent THEN "draft" ELSE "active",
   isLive                 |-> in.goLiveAt = Absent,
   goLiveAt               |-> in.goLiveAt,
   autoSell               |-> in.autoSell]

(* new SellerListing({...}) in acceptOffer: the listing record written for *)
(* history; isLive, goLiveAt, minimumAcceptablePrice and autoSell take     *)
(* their schema defaults.                                                  *)
AcceptedListing(offer, section) ==
  [section                |-> section,
   quantity               |-> offer.quantity,
   askingPrice            |-> offer.maxPrice,
   minimumAcceptablePrice |-> Absent,
   status                 |-> "matched",
   isLive                 |-> FALSE,
   goLiveAt               |-> Absent,
   autoSell               |-> [enabled |-> FALSE, triggerTime |-> Absent,
                               acceptHighestOffer |-> TRUE]]

(* sellerFee: offer.maxPrice * 0.1 and sellerPayout: offer.maxPrice * 0.9. *)
AcceptSellerFee(maxPrice)    == FMul(FromInt(maxPrice), FeeRate)
AcceptSellerPayout(maxPrice) == FMul(FromInt(maxPrice), PayoutRate)

(* new Transaction({...}) in acceptOffer, schema defaults applied.         *)
NewTransaction(o, offer, l, section) ==
  [buyerOffer     |-> o,
   sellerListing  |-> l,
   section        |-> section,
   quantity       |-> offer.quantity,
   salePrice      |-> offer.maxPrice,
   buyerPaid      |-> offer.maxPrice,
   sellerFee      |-> AcceptSellerFee(offer.maxPrice),
   sellerPayout   |-> AcceptSellerPayout(offer.maxPrice),
   paymentStatus  |-> "pending",
   payoutStatus   |-> "pending",
   deliveryStatus |-> "pending",
   escrowStatus   |-> "held",
   hasDispute     |-> FALSE,
   disputeReason  |-> "none"]

----------------------------------------------------------------------------
(* JavaScript Number with its special values, for services/pricingEngine:  *)
(* NaN, the infinities, zero and the signed doubles.  The sign of a zero   *)
(* is dropped: no operation of the pricing engine tells +0 from -0.        *)

NaN         == [k |-> "nan",  s |-> 1, m |-> << >>, e |-> 0]
Zero        == [k |-> "zero", s |-> 1, m |-> << >>, e |-> 0]
Infinity(s) == [k |-> "inf",  s |-> s, m |-> << >>, e |-> 0]
Num(s, f)   == [k |-> "num",  s |-> s, m |-> f.m, e |-> f.e]

(* A whole non-negative Number; an undefined operand converts to NaN.      *)
NumOfInt(n) == IF n = 0 THEN Zero ELSE Num(1, FromInt(n))
ToNumber(n) == IF n = Absent THEN NaN ELSE NumOfInt(n)

(* The literals 1.1 = 0x1.199999999999ap+0 and 0.95 = 0x1.e666666666666p-1. *)
OfferMarkup ==
  Num(1, [m |-> HexBig(<<1, 1, 9, 9, 9, 9, 9, 9, 9, 9, 9, 9, 9, 10>>), e |-> -52])
SaleDiscount ==
  Num(1, [m |-> HexBig(<<1, 14, 6, 6, 6, 6, 6, 6, 6, 6, 6, 6, 6, 6>>), e |-> -53])

(* Order of two positive doubles (mantissas are normalised to MantBits).   *)
BigLess(a, b) ==
  \E i \in 1..Len(a) :
    /\ a[i] < b[i]
    /\ \A j \in (i + 1)..Len(a) : a[j] = b[j]
FLess(x, y) == x.e < y.e \/ (x.e = y.e /\ BigLess(x.m, y.m))

(* x < y of two Numbers, neither NaN.                                      *)
VLess(x, y) ==
  LET rank(v) == CASE v.k = "inf"  -> 2 * v.s
                   [] v.k = "num"  -> v.s
                   [] v.k = "zero" -> 0
  IN  IF rank(x) # rank(y) THEN rank(x) < rank(y)
      ELSE IF x.k # "num" THEN FALSE
      ELSE IF x.s = 1 THEN FLess(x, y) ELSE FLess(y, x)

(* x + y *)
VAdd(x, y) ==
  CASE x.k = "nan" \/ y.k = "nan" -> NaN
    [] x.k = "inf" /\ y.k = "inf"  -> IF x.s = y.s THEN x ELSE NaN
    [] x.k = "inf"                 -> x
    [] y.k = "inf"                 -> y
    [] x.k = "zero"                -> y
    [] y.k = "zero"                -> x
    [] OTHER ->
         IF x.s = y.s THEN Num(x.s, FAdd(x, y))
         ELSE IF FLess(x, y) THEN Num(y.s, FSub(y, x))
         ELSE IF FLess(y, x) THEN Num(x.s, FSub(x, y))
         ELSE Zero

(* x * y *)
VMul(x, y) ==
  CASE x.k = "nan" \/ y.k = "nan" -> NaN
    [] x.k = "zero" \/ y.k = "zero" ->
         IF x.k = "inf" \/ y.k = "inf" THEN NaN ELSE Zero
    [] x.k = "inf" \/ y.k = "inf"  -> Infinity(x.s * y.s)
    [] OTHER                       -> Num(x.s * y.s, FMul(x, y))

(* Quotient and remainder flag of a big integer by one limb d.             *)
RECURSIVE BigDivLimb(_, _)
BigDivLimb(a, d) ==
  IF a = << >> THEN [q |-> << >>, r |-> 0]
  ELSE LET hi  == BigDivLimb(Tail(a), d)
           cur == hi.r * Base + Head(a)
       IN  [q |-> << cur \div d >> \o hi.q, r |-> cur % d]

(* x / y of two positive doubles, y a whole number below Base (a count of  *)
(* documents or a whole-dollar average): the exact quotient to 70 further  *)
(* bits, its remainder kept as a sticky bit, then rounded.                 *)
FDiv(x, y) ==
  LET d   == ShiftRight(y.m, 0 - y.e)[1]
      div == BigDivLimb(ShiftLeft(x.m, 5 * LimbBits), d)
      q   == BigTrim(div.q)
  IN  RoundNearestEven(IF div.r = 0 THEN q
                       ELSE [q EXCEPT ![1] = (@ \div 2) * 2 + 1],
                       x.e - 5 * LimbBits)

(* x / y *)
VDiv(x, y) ==
  CASE x.k = "nan" \/ y.k = "nan"   -> NaN
    [] x.k = "zero" /\ y.k = "zero" -> NaN
    [] x.k = "inf" /\ y.k = "inf"   -> NaN
    [] x.k = "zero" \/ y.k = "inf"  -> Zero
    [] y.k = "zero" \/ x.k = "inf"  -> Infinity(x.s * y.s)
    [] OTHER                        -> Num(x.s * y.s, FDiv(x, y))

(* Math.max, Math.min and x || 0.                                          *)
VMax(x, y) ==
  IF x.k = "nan" \/ y.k = "nan" THEN NaN ELSE IF VLess(x, y) THEN y ELSE x
VMin(x, y) ==
  IF x.k = "nan" \/ y.k = "nan" THEN NaN ELSE IF VLess(x, y) THEN x ELSE y
OrZero(x) == IF x.k \in {"nan", "zero"} THEN Zero ELSE x

(* array.reduce((sum, d) => sum + d.price, 0) over whole prices.           *)
RECURSIVE SumOf(_)
SumOf(prices) ==
  IF prices = << >> THEN Zero
  ELSE VAdd(SumOf(SubSeq(prices, 1, Len(prices) - 1)),
            NumOfInt(prices[Len(prices)]))

(* sum / length || 0 *)
AverageOrZero(prices) ==
  OrZero(VDiv(SumOf(prices), NumOfInt(Len(prices))))

(* calculateAcceptanceProbability(price, event, sections)                  *)
CalculateAcceptanceProbability(price, averagePrice) ==
  VMin(NumOfInt(95),
       VMax(NumOfInt(10),
            VAdd(NumOfInt(50),
                 VMul(VAdd(VDiv(price, ToNumber(averagePrice)),
                           Num(-1, FromInt(1))),
                      NumOfInt(100)))))

(* calculateSuggestedPrice, from the two averages to the returned object.  *)
SuggestedPrice(avgOfferPrice, avgSalePrice, maxPrice, averagePrice) ==
  LET suggestedPrice == VMax(VMul(avgOfferPrice, OfferMarkup),
                             VMul(avgSalePrice, SaleDiscount))
  IN  [suggestedPrice |-> VMin(suggestedPrice, NumOfInt(maxPrice)),
       probability    |-> CalculateAcceptanceProbability(suggestedPrice,
                                                         averagePrice)]

----------------------------------------------------------------------------
(* In-flight requests and responses.                                       *)

InFlight        == BagToSet(reqs)
ActiveRequests  == BagCardinality(reqs)
Start(r)        == reqs' = reqs (+) SetToBag({r})
Finish(r)       == reqs' = reqs (-) SetToBag({r})
Continue(r, r2) == reqs' = (reqs (-) SetToBag({r})) (+) SetToBag({r2})

Reply(op, id, result) == [op |-> op, id |-> id, result |-> result]

(* A step that sends no response.                                          *)
NoReply == Reply("none", Absent, "none")
Silent  == last' = NoReply

----------------------------------------------------------------------------
(* Payment gateway (Stripe PaymentIntents and Transfers).  A PaymentIntent *)
(* is authorized at offer creation and is then captured or cancelled once; *)
(* the gateway refuses either call in any other state.  A call can also    *)
(* fail for reasons of its own (declined), or take effect and be reported  *)
(* as an error to the caller (timeout).                                    *)

CaptureOutcomes(h) ==
  IF h = "authorized" THEN {"ok", "declined", "timeout"} ELSE {"declined"}

HoldAfterCapture(h, outcome) ==
  IF outcome \in {"ok", "timeout"} THEN "captured" ELSE h

(* A gateway that also cancels a hold it has captured.                     *)
CancelCapturedToo(h) ==
  IF h \in {"authorized", "captured"} THEN {"ok", "failed"} ELSE {"failed"}

(* A gateway that cancels a hold in any state.                             *)
CancelNeverRefused(h) == {"ok"}

CancelOutcomes(h) ==
  IF h = "authorized" THEN {"ok", "failed"} ELSE {"failed"}

----------------------------------------------------------------------------
(* services/matchingService.js: selection on a read snapshot.              *)

(* The filter without its status: 'active' and isLive: true conditions.    *)
IsMatchingListingAnyStatus(offer, l) ==
  /\ l.section \in offer.sections
  /\ l.quantity <= offer.quantity
  /\ l.minimumAcceptablePrice # Absent
  /\ l.minimumAcceptablePrice <= offer.maxPrice

(* The filter with quantity: { $lt: ... } in place of $lte.                 *)
IsMatchingListingStrictQuantity(offer, l) ==
  /\ l.section \in offer.sections
  /\ l.status = "active"
  /\ l.isLive
  /\ l.quantity < offer.quantity
  /\ l.minimumAcceptablePrice # Absent
  /\ l.minimumAcceptablePrice <= offer.maxPrice

(* The SellerListing.find filter of checkForInstantMatch; a listing        *)
(* without minimumAcceptablePrice does not satisfy its $lte.               *)
IsMatchingListing(offer, l) ==
  /\ l.section \in offer.sections
  /\ l.status = "active"
  /\ l.isLive
  /\ l.quantity <= offer.quantity
  /\ l.minimumAcceptablePrice # Absent
  /\ l.minimumAcceptablePrice <= offer.maxPrice

MatchingListings(offer) ==
  { l \in 1..Len(listings) : IsMatchingListing(offer, listings[l]) }

(* .sort('minimumAcceptablePrice') then [0]: a listing of least minimum    *)
(* price; the store fixes no order among equal keys.                       *)
BestListings(offer) ==
  { l \in MatchingListings(offer) :
      \A k \in MatchingListings(offer) :
        listings[l].minimumAcceptablePrice <= listings[k].minimumAcceptablePrice }

(* The BuyerOffer.find filter of findBestOfferForListing.                  *)
IsOfferForListing(offer, l) ==
  /\ l.section \in offer.sections
  /\ offer.status = "active"
  /\ offer.quantity >= l.quantity

OffersForListing(l) ==
  { o \in 1..Len(offers) : IsOfferForListing(offers[o], l) }

(* .sort('-maxPrice') then [0].                                            *)
BestOffers(l) ==
  { o \in OffersForListing(l) :
      \A k \in OffersForListing(l) : offers[o].maxPrice >= offers[k].maxPrice }

(* The filter without its 'autoSell.triggerTime': { $lte: now } condition. *)
IsAutoSellDueAnyTime(l) ==
  /\ l.autoSell.enabled
  /\ l.status = "active"

(* The SellerListing.find filter of processAutoSellListings.               *)
IsAutoSellDue(l) ==
  /\ l.autoSell.enabled
  /\ l.autoSell.triggerTime # Absent
  /\ l.autoSell.triggerTime <= now
  /\ l.status = "active"

RECURSIVE DueListingsFrom(_)
DueListingsFrom(i) ==
  IF i > Len(listings) THEN << >>
  ELSE (IF IsAutoSellDue(listings[i]) THEN << i >> ELSE << >>)
       \o DueListingsFrom(i + 1)

----------------------------------------------------------------------------
(* services/transactionService.js, createMatch(offer, listing): the        *)
(* settlement unit called by checkForInstantMatch and by                   *)
(* findBestOfferForListing.  One serializable unit on the store:           *)
(* re-validate, capture the hold, then write offer, listing and            *)
(* Transaction together, or write nothing.                                 *)

(* createMatch re-validating the offer but not the listing.                *)
MatchEligibleOfferOnly(o, l) ==
  /\ offers[o].status = "active"
  /\ listings[l].section \in offers[o].sections

(* createMatch re-checking the listing but not the offer.                  *)
MatchEligibleListingOnly(o, l) ==
  /\ listings[l].status = "active"
  /\ listings[l].section \in offers[o].sections
  /\ listings[l].quantity <= offers[o].quantity

(* createMatch trusting the snapshot its caller selected on.               *)
MatchEligibleUnchecked(o, l) == TRUE

MatchEligible(o, l) ==
  /\ offers[o].status = "active"
  /\ listings[l].status = "active"
  /\ listings[l].section \in offers[o].sections
  /\ listings[l].quantity <= offers[o].quantity

MatchTransaction(o, l) ==
  LET price == offers[o].maxPrice
      fee   == FMul(FromInt(price), FeeRate)
  IN  [buyerOffer     |-> o,
       sellerListing  |-> l,
       section        |-> listings[l].section,
       quantity       |-> listings[l].quantity,
       salePrice      |-> price,
       buyerPaid      |-> price,
       sellerFee      |-> fee,
       sellerPayout   |-> FSub(FromInt(price), fee),
       paymentStatus  |-> "pending",
       payoutStatus   |-> "pending",
       deliveryStatus |-> "pending",
       escrowStatus   |-> "held",
       hasDispute     |-> FALSE,
       disputeReason  |-> "none"]

CreateMatch(o, l, out) ==
  IF ~MatchEligible(o, l)
  THEN /\ out = "ConflictError"
       /\ UNCHANGED << offers, listings, txs, holds, transfers >>
  ELSE \E c \in CaptureOutcomes(holds[o]) :
         /\ holds' = [holds EXCEPT ![o] = HoldAfterCapture(@, c)]
         /\ IF c = "ok"
            THEN /\ out = "matched"
                 /\ offers' = [offers EXCEPT ![o].status = "matched",
                                             ![o].matchedListing = l]
                 /\ listings' = [listings EXCEPT ![l].status = "matched"]
                 /\ txs' = Append(txs, MatchTransaction(o, l))
                 /\ transfers' = Append(transfers, 0)
            ELSE /\ out = "ExternalDependencyError"
                 /\ UNCHANGED << offers, listings, txs, transfers >>

MatchOutcomes == {"matched", "ConflictError", "ExternalDependencyError"}

----------------------------------------------------------------------------
(* controllers/buyerOfferController.js                                     *)

(* createOffer up to the find of checkForInstantMatch: authorize the hold, *)
(* save the offer, select the best listing.  With no matching listing the  *)
(* handler answers 201 at once; otherwise it goes on to createMatch.       *)
CreateOffer(in) ==
  /\ Len(offers) < MaxOffers
  /\ LET o     == Len(offers) + 1
         offer == NewOffer(in)
     IN  /\ offers' = Append(offers, offer)
         /\ holds' = Append(holds, "authorized")
         /\ IF BestListings(offer) = {}
            THEN /\ last' = Reply("createOffer", o, "created")
                 /\ UNCHANGED reqs
            ELSE /\ ActiveRequests < MaxInFlight
                 /\ \E l \in BestListings(offer) :
                      Start([kind |-> "createOffer", offer |-> o, listing |-> l])
                 /\ Silent
  /\ UNCHANGED << listings, txs, transfers, now >>

(* createOffer, the createMatch call of checkForInstantMatch; an error it  *)
(* throws is answered 500 and the saved offer stays.                       *)
CreateOfferMatch(r) ==
  /\ r \in InFlight
  /\ r.kind = "createOffer"
  /\ \E out \in MatchOutcomes :
       /\ CreateMatch(r.offer, r.listing, out)
       /\ last' = Reply("createOffer", r.offer,
                        IF out = "matched" THEN "created" ELSE out)
  /\ Finish(r)
  /\ UNCHANGED now

(* cancelOffer, the findOne with status: 'active'.                         *)
CancelOfferRead(o) ==
  /\ o \in 1..Len(offers)
  /\ IF offers[o].status = "active"
     THEN /\ ActiveRequests < MaxInFlight
          /\ Start([kind |-> "cancelOffer", offer |-> o])
          /\ Silent
     ELSE /\ last' = Reply("cancelOffer", o, "Offer not found")
          /\ UNCHANGED reqs
  /\ UNCHANGED << offers, listings, txs, holds, transfers, now >>

(* cancelOffer, from stripe.paymentIntents.cancel to offer.save(): the     *)
(* save writes the two paths the handler assigned, whatever the stored     *)
(* document has become since the findOne.                                  *)
CancelOfferSave(r) ==
  /\ r \in InFlight
  /\ r.kind = "cancelOffer"
  /\ \E c \in CancelOutcomes(holds[r.offer]) :
       IF c = "ok"
       THEN /\ holds' = [holds EXCEPT ![r.offer] = "cancelled"]
            /\ offers' = [offers EXCEPT ![r.offer].status = "cancelled",
                                        ![r.offer].piStatus = "cancelled"]
            /\ last' = Reply("cancelOffer", r.offer, "Offer cancelled")
       ELSE /\ last' = Reply("cancelOffer", r.offer, "Failed to cancel offer")
            /\ UNCHANGED << offers, holds >>
  /\ Finish(r)
  /\ UNCHANGED << listings, txs, transfers, now >>

----------------------------------------------------------------------------
(* controllers/sellerListingController.js, acceptOffer: a multi-document   *)
(* store transaction (session) around the three writes and the capture.    *)

(* acceptOffer, startTransaction and the findById in the session, then the *)
(* two checks on the loaded offer.                                         *)
AcceptOfferRead(o, section) ==
  /\ o \in 1..MaxOffers
  /\ IF o > Len(offers) \/ offers[o].status # "active"
     THEN /\ last' = Reply("acceptOffer", o, "Offer not available")
          /\ UNCHANGED reqs
     ELSE IF section \notin offers[o].sections
     THEN /\ last' = Reply("acceptOffer", o, "Section not in buyer preferences")
          /\ UNCHANGED reqs
     ELSE /\ ActiveRequests < MaxInFlight
          /\ Start([kind |-> "acceptOffer", offer |-> o, section |-> section])
          /\ Silent
  /\ UNCHANGED << offers, listings, txs, holds, transfers, now >>

(* offer.save({ session }): the store aborts a transaction that writes a   *)
(* document changed since the transaction's snapshot.  Every write to an   *)
(* offer moves it out of 'active', which the snapshot had.                 *)
AcceptWriteConflict(o) == offers[o].status # "active"

(* await stripe.paymentIntents.capture(...) precedes commitTransaction():  *)
(* a capture that throws goes to abortTransaction().                       *)
(* acceptOffer committing whatever the capture call answered.              *)
AcceptCommitsRegardless(c) == TRUE

AcceptReachesCommit(c) == c = "ok"

(* acceptOffer, from listing.save({ session }) to the response.  The       *)
(* writes are staged in the session and become visible at                  *)
(* commitTransaction(), which can itself fail after the capture.           *)
AcceptOfferSettle(r) ==
  /\ r \in InFlight
  /\ r.kind = "acceptOffer"
  /\ LET o == r.offer
         l == Len(listings) + 1
     IN  IF AcceptWriteConflict(o)
         THEN /\ last' = Reply("acceptOffer", o, "WriteConflict")
              /\ UNCHANGED << offers, listings, txs, holds, transfers >>
         ELSE \E c \in CaptureOutcomes(holds[o]), committed \in BOOLEAN,
                 notified \in BOOLEAN :
                /\ holds' = [holds EXCEPT ![o] = HoldAfterCapture(@, c)]
                /\ IF AcceptReachesCommit(c) /\ committed
                   THEN /\ listings' = Append(listings,
                                         AcceptedListing(offers[o], r.section))
                        /\ offers' = [offers EXCEPT ![o].status = "matched",
                                                    ![o].matchedListing = l]
                        /\ txs' = Append(txs, NewTransaction(o, offers[o], l, r.section))
                        /\ transfers' = Append(transfers, 0)
                        /\ last' = Reply("acceptOffer", o,
                                     IF notified THEN "success"
                                     ELSE "notifyMatch failed")
                   ELSE /\ notified
                        /\ AcceptReachesCommit(c) \/ committed
                        /\ last' = Reply("acceptOffer", o,
                                     IF AcceptReachesCommit(c)
                                     THEN "commit failed" ELSE "capture failed")
                        /\ UNCHANGED << offers, listings, txs, transfers >>
  /\ Finish(r)
  /\ UNCHANGED now

(* createListing: one save; a listing with goLiveAt starts as a draft.     *)
CreateListing(in) ==
  /\ Cardinality({ l \in 1..Len(listings) : listings[l].status # "matched"
                                            \/ listings[l].isLive }) < MaxListings
  /\ listings' = Append(listings, NewListing(in))
  /\ last' = Reply("createListing", Len(listings) + 1, "created")
  /\ UNCHANGED << offers, txs, holds, transfers, reqs, now >>

----------------------------------------------------------------------------
(* services/matchingService.js, processAutoSellListings: the periodic      *)
(* sweep.  It loads the due listings once, then for each in turn finds the *)
(* best offer and calls createMatch; an error thrown by createMatch ends   *)
(* the sweep.                                                              *)

SweepStart ==
  /\ \A r \in InFlight : r.kind # "autoSell"
  /\ IF DueListingsFrom(1) = << >>
     THEN /\ last' = Reply("autoSell", Absent, "done")
          /\ UNCHANGED reqs
     ELSE /\ ActiveRequests < MaxInFlight
          /\ Start([kind |-> "autoSell", queue |-> DueListingsFrom(1),
                    offer |-> Absent])
          /\ Silent
  /\ UNCHANGED << offers, listings, txs, holds, transfers, now >>

SweepAdvance(r) ==
  IF Len(r.queue) = 1
  THEN Finish(r) /\ last' = Reply("autoSell", Head(r.queue), "done")
  ELSE Continue(r, [r EXCEPT !.queue = Tail(@), !.offer = Absent])
       /\ Silent

(* findBestOfferForListing, the BuyerOffer.find and the choice of          *)
(* offers[0].                                                              *)
SweepFind(r) ==
  /\ r \in InFlight
  /\ r.kind = "autoSell"
  /\ r.offer = Absent
  /\ LET l == listings[Head(r.queue)]
     IN  IF BestOffers(l) # {} /\ l.autoSell.acceptHighestOffer
         THEN /\ \E o \in BestOffers(l) : Continue(r, [r EXCEPT !.offer = o])
              /\ Silent
         ELSE SweepAdvance(r)
  /\ UNCHANGED << offers, listings, txs, holds, transfers, now >>

(* findBestOfferForListing, the createMatch call.                          *)
SweepMatch(r) ==
  /\ r \in InFlight
  /\ r.kind = "autoSell"
  /\ r.offer # Absent
  /\ \E out \in MatchOutcomes :
       /\ CreateMatch(r.offer, Head(r.queue), out)
       /\ IF out = "matched"
          THEN SweepAdvance(r)
          ELSE Finish(r) /\ last' = Reply("autoSell", Head(r.queue), out)
  /\ UNCHANGED now

----------------------------------------------------------------------------
(* controllers/sellerListingController.js: listing management.  save()     *)
(* writes the paths whose assigned value differs from the loaded document. *)

(* Request bodies of PUT /listings/:id: the allowed fields they carry.     *)
UpdateInputs ==
  { [askingPrice |-> 300],
    [goLiveAt |-> 2] }

(* The document after allowedUpdates.forEach(...) and the goLiveAt rule.   *)
UpdatedListing(loaded, body) ==
  LET assigned == [f \in DOMAIN loaded |->
                     IF f \in DOMAIN body THEN body[f] ELSE loaded[f]]
  IN  IF "goLiveAt" \in DOMAIN body /\ body.goLiveAt # Absent
      THEN [assigned EXCEPT !.status = "draft", !.isLive = FALSE]
      ELSE assigned

(* save(): the stored document with the modified paths of doc written.     *)
SaveModified(stored, loaded, doc) ==
  [f \in DOMAIN stored |-> IF doc[f] # loaded[f] THEN doc[f] ELSE stored[f]]

(* Bodies of POST /listings/bulk: arrays of listings, with or without      *)
(* goLiveAt.                                                               *)
BulkInputs ==
  { << in >> : in \in ListingInputs } \cup
  { << [section |-> "A", quantity |-> 2, askingPrice |-> 250,
        minimumAcceptablePrice |-> 150, goLiveAt |-> 2,
        autoSell |-> [enabled |-> FALSE, triggerTime |-> Absent,
                      acceptHighestOffer |-> TRUE]] >> }

(* bulkUpload: new SellerListing({...listing, status, isLive}) and save()  *)
(* for each element of the array.                                          *)
RECURSIVE BulkListings(_)
BulkListings(ins) ==
  IF ins = << >> THEN << >>
  ELSE << NewListing(Head(ins)) >> \o BulkListings(Tail(ins))

BulkUpload(ins) ==
  /\ Cardinality({ l \in 1..Len(listings) : listings[l].status # "matched"
                                            \/ listings[l].isLive })
       + Len(ins) <= MaxListings
  /\ listings' = listings \o BulkListings(ins)
  /\ last' = Reply("bulkUpload", Len(ins), "created")
  /\ UNCHANGED << offers, txs, holds, transfers, reqs, now >>

(* The status guard of updateListing and of deleteListing.                 *)
ListingLocked(l) == l.status \in {"matched", "sold"}

UpdateListingRead(l, body) ==
  /\ l \in 1..Len(listings)
  /\ IF ListingLocked(listings[l])
     THEN /\ last' = Reply("updateListing", l,
                           "Cannot update listing in current status")
          /\ UNCHANGED reqs
     ELSE /\ ActiveRequests < MaxInFlight
          /\ Start([kind |-> "updateListing", listing |-> l,
                    loaded |-> listings[l], body |-> body])
          /\ Silent
  /\ UNCHANGED << offers, listings, txs, holds, transfers, now >>

UpdateListingSave(r) ==
  /\ r \in InFlight
  /\ r.kind = "updateListing"
  /\ listings' = [listings EXCEPT ![r.listing] =
                    SaveModified(@, r.loaded, UpdatedListing(r.loaded, r.body))]
  /\ last' = Reply("updateListing", r.listing, "success")
  /\ Finish(r)
  /\ UNCHANGED << offers, txs, holds, transfers, now >>

DeleteListingRead(l) ==
  /\ l \in 1..Len(listings)
  /\ IF ListingLocked(listings[l])
     THEN /\ last' = Reply("deleteListing", l,
                           "Cannot delete listing in current status")
          /\ UNCHANGED reqs
     ELSE /\ ActiveRequests < MaxInFlight
          /\ Start([kind |-> "deleteListing", listing |-> l,
                    loaded |-> listings[l]])
          /\ Silent
  /\ UNCHANGED << offers, listings, txs, holds, transfers, now >>

DeleteListingSave(r) ==
  /\ r \in InFlight
  /\ r.kind = "deleteListing"
  /\ listings' = [listings EXCEPT ![r.listing] =
                    SaveModified(@, r.loaded,
                                 [r.loaded EXCEPT !.status = "cancelled"])]
  /\ last' = Reply("deleteListing", r.listing, "Listing deleted successfully")
  /\ Finish(r)
  /\ UNCHANGED << offers, txs, holds, transfers, now >>

(* goLive, the findOne with status: 'draft'.                               *)
GoLiveRead(l) ==
  /\ l \in 1..Len(listings)
  /\ IF listings[l].status # "draft"
     THEN /\ last' = Reply("goLive", l, "Draft listing not found")
          /\ UNCHANGED reqs
     ELSE /\ ActiveRequests < MaxInFlight
          /\ Start([kind |-> "goLive", listing |-> l, loaded |-> listings[l]])
          /\ Silent
  /\ UNCHANGED << offers, listings, txs, holds, transfers, now >>

(* goLive, from the event lookup to the response.  The catalog event stays *)
(* 'upcoming'; checkForInstantMatchForListing finds the offers and does    *)
(* nothing with them.                                                      *)
GoLiveSave(r) ==
  /\ r \in InFlight
  /\ r.kind = "goLive"
  /\ listings' = [listings EXCEPT ![r.listing] =
                    SaveModified(@, r.loaded,
                                 [r.loaded EXCEPT !.status = "active",
                                                  !.isLive = TRUE,
                                                  !.goLiveAt = now])]
  /\ last' = Reply("goLive", r.listing, "Listing is now live")
  /\ Finish(r)
  /\ UNCHANGED << offers, txs, holds, transfers, now >>

----------------------------------------------------------------------------
(* Delivery, escrow and payout: transferTickets (seller), confirmDelivery  *)
(* with processSellerPayout, and disputeTransaction (buyer).               *)
(* buyerOfferController.js names the Transaction and User models without  *)
(* importing them, and matchingService.js names BuyerOffer likewise; the   *)
(* handlers are modelled as written, with those names bound to the models. *)

ValidReasons ==
  {"tickets_not_received", "invalid_tickets", "wrong_section",
   "wrong_quantity", "event_cancelled", "other"}

(* Dispute reasons sent by buyers: one of the enumeration, one outside it. *)
ReasonInputs == {"tickets_not_received", "changed_my_mind"}

TransferTicketsRead(t) ==
  /\ t \in 1..Len(txs)
  /\ IF txs[t].deliveryStatus # "pending"
     THEN /\ last' = Reply("transferTickets", t,
                           "Transaction not found or already transferred")
          /\ UNCHANGED reqs
     ELSE /\ ActiveRequests < MaxInFlight
          /\ Start([kind |-> "transferTickets", tx |-> t, loaded |-> txs[t]])
          /\ Silent
  /\ UNCHANGED << offers, listings, txs, holds, transfers, now >>

TransferTicketsSave(r) ==
  /\ r \in InFlight
  /\ r.kind = "transferTickets"
  /\ txs' = [txs EXCEPT ![r.tx] =
               SaveModified(@, r.loaded,
                            [r.loaded EXCEPT !.deliveryStatus = "transferred"])]
  /\ last' = Reply("transferTickets", r.tx, "Tickets transferred successfully")
  /\ Finish(r)
  /\ UNCHANGED << offers, listings, holds, transfers, now >>

(* confirmDelivery, the findOne with deliveryStatus: 'transferred'.        *)
ConfirmDeliveryRead(t) ==
  /\ t \in 1..Len(txs)
  /\ IF txs[t].deliveryStatus # "transferred"
     THEN /\ last' = Reply("confirmDelivery", t,
                           "Transaction not found or not ready for confirmation")
          /\ UNCHANGED reqs
     ELSE /\ ActiveRequests < MaxInFlight
          /\ Start([kind |-> "confirmDelivery", tx |-> t, loaded |-> txs[t],
                    pc |-> "loaded"])
          /\ Silent
  /\ UNCHANGED << offers, listings, txs, holds, transfers, now >>

(* The document confirmDelivery saves.                                     *)
ConfirmedTransaction(loaded) ==
  [loaded EXCEPT !.deliveryStatus = "confirmed", !.escrowStatus = "released"]

(* A handler that skips the comparison with the event date.               *)
EventNeverPassed == FALSE

(* new Date() > new Date(event.dateTime)                                   *)
EventHasPassed == now > EventTime

(* confirmDelivery, from the event lookup to transaction.save().           *)
ConfirmDeliverySave(r) ==
  /\ r \in InFlight
  /\ r.kind = "confirmDelivery"
  /\ r.pc = "loaded"
  /\ IF EventHasPassed
     THEN /\ last' = Reply("confirmDelivery", r.tx,
                           "Cannot confirm delivery after event has passed")
          /\ Finish(r)
          /\ UNCHANGED txs
     ELSE /\ txs' = [txs EXCEPT ![r.tx] =
                       SaveModified(@, r.loaded, ConfirmedTransaction(r.loaded))]
          /\ Continue(r, [r EXCEPT !.pc = "payout",
                                   !.loaded = ConfirmedTransaction(r.loaded)])
          /\ Silent
  /\ UNCHANGED << offers, listings, holds, transfers, now >>

(* processSellerPayout: stripe.transfers.create when the seller has a      *)
(* connected account, then the save of payoutStatus; the call carries no   *)
(* idempotency key, so each call that succeeds is a transfer of its own.   *)
ConfirmDeliveryPayout(r) ==
  /\ r \in InFlight
  /\ r.kind = "confirmDelivery"
  /\ r.pc = "payout"
  /\ \E outcome \in {"ok", "failed", "no account"} :
       /\ transfers' = [transfers EXCEPT ![r.tx] =
                          IF outcome = "ok" THEN @ + 1 ELSE @]
       /\ txs' = [txs EXCEPT ![r.tx] =
                    SaveModified(@, r.loaded,
                      [r.loaded EXCEPT !.payoutStatus =
                         CASE outcome = "ok"         -> "completed"
                           [] outcome = "failed"     -> "failed"
                           [] outcome = "no account" -> @])]
       /\ last' = Reply("confirmDelivery", r.tx,
                        IF outcome = "failed" THEN "Failed to confirm delivery"
                        ELSE "Delivery confirmed successfully")
  /\ Finish(r)
  /\ UNCHANGED << offers, listings, holds, now >>

(* disputeTransaction, from the reason check to the hasDispute check.      *)
DisputeRead(t, reason) ==
  /\ t \in 1..Len(txs)
  /\ IF reason \notin ValidReasons
     THEN /\ last' = Reply("disputeTransaction", t, "Invalid dispute reason")
          /\ UNCHANGED reqs
     ELSE IF txs[t].deliveryStatus \notin {"pending", "transferred"}
     THEN /\ last' = Reply("disputeTransaction", t,
                           "Transaction not found or cannot be disputed")
          /\ UNCHANGED reqs
     ELSE IF txs[t].hasDispute
     THEN /\ last' = Reply("disputeTransaction", t,
                           "Transaction already has an active dispute")
          /\ UNCHANGED reqs
     ELSE /\ ActiveRequests < MaxInFlight
          /\ Start([kind |-> "disputeTransaction", tx |-> t, loaded |-> txs[t],
                    reason |-> reason])
          /\ Silent
  /\ UNCHANGED << offers, listings, txs, holds, transfers, now >>

(* The document disputeTransaction saves.                                  *)
DisputedTransaction(loaded, reason) ==
  [loaded EXCEPT !.hasDispute = TRUE, !.disputeReason = reason,
                 !.deliveryStatus = "disputed", !.escrowStatus = "held"]

(* disputeTransaction, from the event lookup to the response; an error of  *)
(* notifyDisputeParties is answered 500 after the save.                    *)
DisputeSave(r) ==
  /\ r \in InFlight
  /\ r.kind = "disputeTransaction"
  /\ IF EventHasPassed
     THEN /\ last' = Reply("disputeTransaction", r.tx,
                           "Cannot dispute transaction after event date")
          /\ UNCHANGED txs
     ELSE /\ txs' = [txs EXCEPT ![r.tx] =
                       SaveModified(@, r.loaded,
                                    DisputedTransaction(r.loaded, r.reason))]
          /\ \E notified \in BOOLEAN :
               last' = Reply("disputeTransaction", r.tx,
                             IF notified THEN "Dispute submitted successfully"
                             ELSE "Failed to submit dispute")
  /\ Finish(r)
  /\ UNCHANGED << offers, listings, holds, transfers, now >>

----------------------------------------------------------------------------
----------------------------------------------------------------------------
(* services/pricingEngine.js, calculateSuggestedPrice: the event, the      *)
(* active offers and the Transactions are read by three finds one after    *)
(* another, then the suggestion is computed from what was read.            *)

(* The calls made: sections asked for, the caller's maxPrice, and the      *)
(* averagePrice recorded in the event's marketStats.                       *)
PricingSections == {{"A"}, {"A", "B"}}
PricingMaxPrices == {200}
AveragePrices == {Absent, 0, 100}

(* BuyerOffer.find({status: 'active', sections: {$in: sections}}), the     *)
(* maxPrice of each document found.                                        *)
RECURSIVE ActiveOfferPrices(_, _)
ActiveOfferPrices(sections, i) ==
  IF i > Len(offers) THEN << >>
  ELSE (IF offers[i].status = "active" /\ offers[i].sections \cap sections # {}
        THEN << offers[i].maxPrice >> ELSE << >>)
       \o ActiveOfferPrices(sections, i + 1)

(* Transaction.find({section: {$in: sections}}), the salePrice of each.    *)
RECURSIVE SalePrices(_, _)
SalePrices(sections, i) ==
  IF i > Len(txs) THEN << >>
  ELSE (IF txs[i].section \in sections THEN << txs[i].salePrice >> ELSE << >>)
       \o SalePrices(sections, i + 1)

SuggestPriceRead(sections, maxPrice, averagePrice) ==
  /\ ActiveRequests < MaxInFlight
  /\ Start([kind |-> "calculateSuggestedPrice", sections |-> sections,
            maxPrice |-> maxPrice, averagePrice |-> averagePrice,
            offerPrices |-> ActiveOfferPrices(sections, 1)])
  /\ Silent
  /\ UNCHANGED << offers, listings, txs, holds, transfers, now >>

SuggestPriceAnswer(r) ==
  /\ r \in InFlight
  /\ r.kind = "calculateSuggestedPrice"
  /\ last' = [op |-> "calculateSuggestedPrice", id |-> Absent, result |-> "ok",
              value |-> SuggestedPrice(AverageOrZero(r.offerPrices),
                                       AverageOrZero(SalePrices(r.sections, 1)),
                                       r.maxPrice, r.averagePrice)]
  /\ Finish(r)
  /\ UNCHANGED << offers, listings, txs, holds, transfers, now >>

Tick ==
  /\ now < MaxTime
  /\ now' = now + 1
  /\ Silent
  /\ UNCHANGED << offers, listings, txs, holds, transfers, reqs >>

Init ==
  /\ offers = << >>
  /\ listings = << >>
  /\ txs = << >>
  /\ holds = << >>
  /\ transfers = << >>
  /\ reqs = EmptyBag
  /\ now = 0
  /\ last = NoReply

Next ==
  \/ \E in \in OfferInputs : CreateOffer(in)
  \/ \E r \in InFlight : CreateOfferMatch(r)
  \/ \E o \in 1..MaxOffers : CancelOfferRead(o)
  \/ \E r \in InFlight : CancelOfferSave(r)
  \/ \E o \in 1..MaxOffers, s \in Sections : AcceptOfferRead(o, s)
  \/ \E r \in InFlight : AcceptOfferSettle(r)
  \/ \E in \in ListingInputs : CreateListing(in)
  \/ SweepStart
  \/ \E r \in InFlight : SweepFind(r)
  \/ \E r \in InFlight : SweepMatch(r)
  \/ Tick

Spec == Init /\ [][Next]_vars

----------------------------------------------------------------------------
(* The delivery sub-machine on its own, from the state a direct accept     *)
(* leaves: one offer matched, its hold captured, the listing written by    *)
(* acceptOffer and the Transaction with its defaults.                      *)

InitDelivery ==
  \E in \in OfferInputs, s \in Sections :
    /\ s \in in.sections
    /\ offers = << [NewOffer(in) EXCEPT !.status = "matched",
                                        !.matchedListing = 1] >>
    /\ listings = << AcceptedListing(NewOffer(in), s) >>
    /\ holds = << "captured" >>
    /\ txs = << NewTransaction(1, NewOffer(in), 1, s) >>
    /\ transfers = << 0 >>
    /\ reqs = EmptyBag
    /\ now = 0
    /\ last = NoReply

NextDelivery ==
  \/ \E t \in 1..Len(txs) : TransferTicketsRead(t)
  \/ \E r \in InFlight : TransferTicketsSave(r)
  \/ \E t \in 1..Len(txs) : ConfirmDeliveryRead(t)
  \/ \E r \in InFlight : ConfirmDeliverySave(r)
  \/ \E r \in InFlight : ConfirmDeliveryPayout(r)
  \/ \E t \in 1..Len(txs), reason \in ReasonInputs : DisputeRead(t, reason)
  \/ \E r \in InFlight : DisputeSave(r)
  \/ Tick

SpecDelivery == InitDelivery /\ [][NextDelivery]_vars

----------------------------------------------------------------------------
(* The listing lifecycle on its own, from the empty store or from the     *)
(* state a direct accept leaves (which holds a matched listing):           *)
(* listings are created, edited, deleted and made live.                    *)

InitListing == Init \/ InitDelivery

NextListing ==
  \/ \E in \in ListingInputs : CreateListing(in)
  \/ \E l \in 1..Len(listings), body \in UpdateInputs : UpdateListingRead(l, body)
  \/ \E r \in InFlight : UpdateListingSave(r)
  \/ \E l \in 1..Len(listings) : DeleteListingRead(l)
  \/ \E r \in InFlight : DeleteListingSave(r)
  \/ \E l \in 1..Len(listings) : GoLiveRead(l)
  \/ \E r \in InFlight : GoLiveSave(r)

SpecListing == InitListing /\ [][NextListing]_vars

----------------------------------------------------------------------------
(* Direct accept on its own: offers are created with no listing on sale,   *)
(* cancelled by their buyers and accepted by sellers, while time passes.   *)

NextDirect ==
  \/ \E in \in OfferInputs : CreateOffer(in)
  \/ \E o \in 1..MaxOffers : CancelOfferRead(o)
  \/ \E r \in InFlight : CancelOfferSave(r)
  \/ \E o \in 1..MaxOffers, s \in Sections : AcceptOfferRead(o, s)
  \/ \E r \in InFlight : AcceptOfferSettle(r)
  \/ Tick

SpecDirect == Init /\ [][NextDirect]_vars

----------------------------------------------------------------------------
(* Properties.                                                             *)

(* The request r ends, or moves on, in this step / starts in this step.    *)
Leaves(r) == CopiesIn(r, reqs') < CopiesIn(r, reqs)
Enters(r) == CopiesIn(r, reqs') > CopiesIn(r, reqs)

(* r is at a createMatch call; the listing that call settles.              *)
IsMatchCall(r) ==
  r.kind = "createOffer" \/ (r.kind = "autoSell" /\ r.offer # Absent)
SettledListing(r) ==
  IF r.kind = "createOffer" THEN r.listing ELSE Head(r.queue)

C3_FeePlusPayoutIsPrice ==
  \A t \in 1..Len(txs) :
    FAdd(txs[t].sellerFee, txs[t].sellerPayout) = FromInt(txs[t].salePrice)

(* C4: no step turns an offer whose expiresAt is before now into a matched *)
(* offer.                                                                  *)
C4_ExpiredNeverMatched ==
  [][ \A o \in 1..Len(offers) :
        ( /\ offers[o].status # "matched"
          /\ offers'[o].status = "matched" )
        => ~(offers[o].expiresAt < now)
    ]_vars

(* C5: a settlement answered with a capture error leaves offers, listings  *)
(* and Transactions as they were, its offer still active; and a step that  *)
(* commits a Transaction is a step in which the gateway moved the offer's  *)
(* hold from authorized to captured.                                       *)
C5_CaptureFailureAborts ==
  [][ /\ last'.result \in {"capture failed", "ExternalDependencyError"}
         => /\ offers' = offers
            /\ listings' = listings
            /\ txs' = txs
            /\ \A r \in InFlight :
                 Leaves(r) => offers'[r.offer].status = "active"
      /\ Len(txs') > Len(txs)
         => LET o == txs'[Len(txs')].buyerOffer
            IN  /\ holds[o] = "authorized"
                /\ holds'[o] = "captured"
    ]_vars

(* A capture has just timed out: the gateway holds the money, the store    *)
(* holds no match.                                                         *)
C5_Witness ==
  /\ last.op = "acceptOffer"
  /\ last.result = "capture failed"
  /\ holds[last.id] = "captured"
  /\ offers[last.id].status = "active"
  /\ txs = << >>

(* C6: in every reachable state a Transaction whose escrow is released has *)
(* deliveryStatus confirmed and no dispute.                                *)
C6_ReleasedOnlyWhenConfirmed ==
  \A t \in 1..Len(txs) :
    txs[t].escrowStatus = "released"
    => /\ txs[t].deliveryStatus = "confirmed"
       /\ ~txs[t].hasDispute

(* C7: a dispute attempted on a Transaction that already has a dispute, or *)
(* whose deliveryStatus is outside {pending, transferred}, is answered     *)
(* with an error at once and never starts; a dispute that reaches its date *)
(* check after the event is answered with an error; and every dispute step *)
(* answered with an error leaves the Transactions as they were.            *)
C7_DisputeRejected ==
  [][ /\ \A r \in BagToSet(reqs') :
           (r.kind = "disputeTransaction" /\ Enters(r))
           => /\ ~txs[r.tx].hasDispute
              /\ txs[r.tx].deliveryStatus \in {"pending", "transferred"}
      /\ \A r \in InFlight :
           (r.kind = "disputeTransaction" /\ Leaves(r) /\ now > EventTime)
           => /\ last' = Reply("disputeTransaction", r.tx,
                               "Cannot dispute transaction after event date")
              /\ txs' = txs
      /\ ( /\ last'.op = "disputeTransaction"
           /\ last'.result \notin {"Dispute submitted successfully",
                                    "Failed to submit dispute"} )
         => txs' = txs
    ]_vars

(* A dispute has just been refused because the event date has passed, on a *)
(* Transaction it would otherwise have been open to.                       *)
C7_Witness ==
  /\ last.op = "disputeTransaction"
  /\ last.result = "Cannot dispute transaction after event date"
  /\ now > EventTime
  /\ ~txs[last.id].hasDispute
  /\ txs[last.id].deliveryStatus \in {"pending", "transferred"}

(* C8: at most one transfer to the seller is issued per Transaction.       *)
C8_SingleTransferPerTransaction ==
  \A t \in 1..Len(txs) : transfers[t] <= 1

(* C9: every change of an offer's status follows the lifecycle: active to  *)
(* matched, expired or cancelled, and matched to completed.  So no offer   *)
(* returns to active and expired, cancelled and completed offers keep      *)
(* their status.                                                           *)
C9_OfferStatusOneWay ==
  [][ \A o \in 1..Len(offers) :
        offers'[o].status # offers[o].status
        => \/ /\ offers[o].status = "active"
              /\ offers'[o].status \in {"matched", "expired", "cancelled"}
           \/ /\ offers[o].status = "matched"
              /\ offers'[o].status = "completed"
    ]_vars

(* cancelOffer raced a direct accept of the same offer and won: the offer  *)
(* is cancelled and the accept has just been refused.                      *)
C9_Witness ==
  /\ last.op = "acceptOffer"
  /\ last.result = "WriteConflict"
  /\ offers[last.id].status = "cancelled"
  /\ holds[last.id] = "cancelled"

(* C10: updateListing on a listing whose status is matched, sold or        *)
(* cancelled is answered with the rejection, never starts, and changes no  *)
(* listing.                                                                *)
C10_ClosedListingImmutable ==
  [][ \A l \in 1..Len(listings) :
        listings[l].status \in {"matched", "sold", "cancelled"}
        => /\ \A r \in BagToSet(reqs') :
                (r.kind = "updateListing" /\ r.listing = l) => ~Enters(r)
           /\ (last'.op = "updateListing" /\ last'.id = l)
              => /\ last'.result = "Cannot update listing in current status"
                 /\ listings' = listings
    ]_vars

----------------------------------------------------------------------------
(* Instant match next to listing management: sellers create, edit and      *)
(* delete listings while offers are created and matched to them.          *)

NextMarket ==
  \/ \E in \in OfferInputs : CreateOffer(in)
  \/ \E r \in InFlight : CreateOfferMatch(r)
  \/ \E in \in ListingInputs : CreateListing(in)
  \/ \E l \in 1..Len(listings), body \in UpdateInputs : UpdateListingRead(l, body)
  \/ \E r \in InFlight : UpdateListingSave(r)
  \/ \E l \in 1..Len(listings) : DeleteListingRead(l)
  \/ \E r \in InFlight : DeleteListingSave(r)

SpecMarket == Init /\ [][NextMarket]_vars

(* C11: in every reachable state an offer is matched exactly when a        *)
(* Transaction references it, and then the listing recorded in its         *)
(* matchedListing is matched and is the listing of that Transaction.       *)
C11_AllOrNothing ==
  \A o \in 1..Len(offers) :
    /\ offers[o].status = "matched"
       <=> \E t \in 1..Len(txs) : txs[t].buyerOffer = o
    /\ offers[o].status = "matched"
       => /\ offers[o].matchedListing \in 1..Len(listings)
          /\ listings[offers[o].matchedListing].status = "matched"
          /\ \E t \in 1..Len(txs) :
               /\ txs[t].buyerOffer = o
               /\ txs[t].sellerListing = offers[o].matchedListing

(* C12: confirmDelivery starts only on a Transaction whose deliveryStatus  *)
(* is transferred, and one that reaches its date check when now is at or   *)
(* after the event's date/time is rejected and changes no Transaction.     *)
C12_ConfirmStrictlyBeforeEvent ==
  [][ /\ \A r \in BagToSet(reqs') :
           (r.kind = "confirmDelivery" /\ r.pc = "loaded" /\ Enters(r))
           => txs[r.tx].deliveryStatus = "transferred"
      /\ \A r \in InFlight :
           ( /\ r.kind = "confirmDelivery"
             /\ r.pc = "loaded"
             /\ Leaves(r)
             /\ now >= EventTime )
           => /\ last' = Reply("confirmDelivery", r.tx,
                               "Cannot confirm delivery after event has passed")
              /\ txs' = txs
    ]_vars

(* The earliest created among a set of documents (lowest _id).             *)
Oldest(S) == CHOOSE x \in S : \A y \in S : x <= y

(* C13: whenever a counterpart is selected, it is the one the rule names:  *)
(* forward, the oldest of the matching listings of lowest                  *)
(* minimumAcceptablePrice; reverse, the oldest of the matching offers of   *)
(* highest maxPrice.                                                       *)
C13_SelectionDeterministic ==
  [][ \A r \in BagToSet(reqs') :
        Enters(r)
        => /\ r.kind = "createOffer"
              => r.listing = Oldest(BestListings(offers'[r.offer]))
           /\ (r.kind = "autoSell" /\ r.offer # Absent)
              => r.offer = Oldest(BestOffers(listings[Head(r.queue)]))
    ]_vars

----------------------------------------------------------------------------
(* The pricing advisor next to offers being created and accepted.          *)

NextPricing ==
  \/ \E in \in OfferInputs : CreateOffer(in)
  \/ \E o \in 1..MaxOffers, s \in Sections : AcceptOfferRead(o, s)
  \/ \E r \in InFlight : AcceptOfferSettle(r)
  \/ \E sections \in PricingSections, maxPrice \in PricingMaxPrices,
        averagePrice \in AveragePrices :
          SuggestPriceRead(sections, maxPrice, averagePrice)
  \/ \E r \in InFlight : SuggestPriceAnswer(r)

SpecPricing == Init /\ [][NextPricing]_vars

(* C15: a suggestion computed from no active offer and no Transaction in   *)
(* the sections asked for, for an event whose averagePrice is zero or      *)
(* absent, is suggestedPrice 0 with probability 50.                        *)
C15_EmptyMarketDefaults ==
  [][ \A r \in InFlight :
        ( /\ r.kind = "calculateSuggestedPrice"
          /\ Leaves(r)
          /\ r.offerPrices = << >>
          /\ SalePrices(r.sections, 1) = << >>
          /\ r.averagePrice \in {0, Absent} )
        => /\ last'.value.suggestedPrice = Zero
           /\ last'.value.probability = NumOfInt(50)
    ]_vars

(* C16: an acceptOffer whose settlement has committed reports success     *)
(* whatever the notification sink did: the offer is matched, its           *)
(* Transaction is stored, and the reply is the success reply.              *)
C16_NotifyFailureKeepsSuccess ==
  [][ \A r \in InFlight :
        (r.kind = "acceptOffer" /\ Leaves(r) /\ Len(txs') = Len(txs) + 1)
        => /\ offers'[r.offer].status = "matched"
           /\ txs'[Len(txs')].buyerOffer = r.offer
           /\ last' = Reply("acceptOffer", r.offer, "success")
    ]_vars

(* C17: the listing checkForInstantMatch hands to createMatch is, in the   *)
(* store it was read from, a candidate for the offer: its section is one   *)
(* of the offer's, it is active and live, its quantity is at most the      *)
(* offer's and its minimumAcceptablePrice is at most the offer's maxPrice. *)
C17_ForwardSelectsCandidate ==
  [][ \A r \in BagToSet(reqs') :
        (r.kind = "createOffer" /\ Enters(r))
        => LET offer == offers'[r.offer]
               l     == listings'[r.listing]
           IN  /\ l.section \in offer.sections
               /\ l.status = "active"
               /\ l.isLive = TRUE
               /\ l.quantity <= offer.quantity
               /\ l.minimumAcceptablePrice # Absent
               /\ l.minimumAcceptablePrice <= offer.maxPrice
    ]_vars

C17_Witness ==
  \E r \in InFlight :
    /\ r.kind = "createOffer"
    /\ offers[r.offer].status = "active"
    /\ offers[r.offer].maxPrice = 200
    /\ listings[r.listing].minimumAcceptablePrice = 150
    /\ listings[r.listing].section \in offers[r.offer].sections

(* C18: when an offer is created and a listing without                    *)
(* minimumAcceptablePrice meets the other candidate conditions (section,   *)
(* active, live, quantity), checkForInstantMatch hands the offer and a     *)
(* candidate listing to createMatch.                                       *)
C18_NoMinimumIsCandidate ==
  [][ Len(offers') = Len(offers) + 1
      => LET o     == Len(offers')
             offer == offers'[o]
         IN  (\E l \in 1..Len(listings) :
                /\ listings[l].minimumAcceptablePrice = Absent
                /\ listings[l].section \in offer.sections
                /\ listings[l].status = "active"
                /\ listings[l].isLive
                /\ listings[l].quantity <= offer.quantity)
             => \E r \in BagToSet(reqs') :
                  /\ r.kind = "createOffer"
                  /\ Enters(r)
                  /\ r.offer = o
                  /\ listings[r.listing].section \in offer.sections
                  /\ listings[r.listing].status = "active"
    ]_vars

(* C19: the offer the auto-sell sweep hands to createMatch for a listing   *)
(* is active, accepts the listing's section, asks for at least the         *)
(* listing's quantity, and has a maxPrice that is at least the listing's   *)
(* minimumAcceptablePrice, or its askingPrice when it has no minimum.      *)
C19_ReverseSelectsCandidate ==
  [][ \A r \in BagToSet(reqs') :
        (r.kind = "autoSell" /\ r.offer # Absent /\ Enters(r))
        => LET offer == offers[r.offer]
               l     == listings[Head(r.queue)]
               floor == IF l.minimumAcceptablePrice # Absent
                        THEN l.minimumAcceptablePrice ELSE l.askingPrice
           IN  /\ offer.status = "active"
               /\ l.section \in offer.sections
               /\ offer.quantity >= l.quantity
               /\ offer.maxPrice >= floor
    ]_vars

----------------------------------------------------------------------------
(* The auto-sell sweep next to offers and listings being created, the      *)
(* listings including one whose autoSell does not accept the highest       *)
(* offer.                                                                  *)

SweepListingInputs ==
  ListingInputs \cup
  { [section |-> "B", quantity |-> 1, askingPrice |-> 100,
     minimumAcceptablePrice |-> Absent, goLiveAt |-> Absent,
     autoSell |-> [enabled |-> TRUE, triggerTime |-> 1,
                   acceptHighestOffer |-> FALSE]] }

NextSweep ==
  \/ \E in \in OfferInputs : CreateOffer(in)
  \/ \E r \in InFlight : CreateOfferMatch(r)
  \/ \E in \in SweepListingInputs : CreateListing(in)
  \/ SweepStart
  \/ \E r \in InFlight : SweepFind(r)
  \/ \E r \in InFlight : SweepMatch(r)
  \/ Tick

SpecSweep == Init /\ [][NextSweep]_vars

----------------------------------------------------------------------------
(* Listings being created, scheduled and made live while offers wait.      *)

NextGoLive ==
  \/ \E in \in OfferInputs : CreateOffer(in)
  \/ \E r \in InFlight : CreateOfferMatch(r)
  \/ \E in \in ListingInputs : CreateListing(in)
  \/ \E l \in 1..Len(listings), body \in UpdateInputs : UpdateListingRead(l, body)
  \/ \E r \in InFlight : UpdateListingSave(r)
  \/ \E l \in 1..Len(listings) : GoLiveRead(l)
  \/ \E r \in InFlight : GoLiveSave(r)

SpecGoLive == Init /\ [][NextGoLive]_vars

(* C21: when a listing becomes live (created without goLiveAt, or made     *)
(* live by goLive) while an active offer is eligible for it, the step      *)
(* settles the listing or leaves its handler on the way to createMatch.    *)
C21_GoLiveMatches ==
  [][ \A l \in 1..Len(listings') :
        ( /\ listings'[l].isLive
          /\ listings'[l].status = "active"
          /\ l > Len(listings) \/ ~listings[l].isLive
          /\ \E o \in 1..Len(offers) :
               /\ offers[o].status = "active"
               /\ listings'[l].section \in offers[o].sections
               /\ offers[o].quantity >= listings'[l].quantity
               /\ offers[o].maxPrice >=
                    (IF listings'[l].minimumAcceptablePrice # Absent
                     THEN listings'[l].minimumAcceptablePrice
                     ELSE listings'[l].askingPrice) )
        => \/ \E t \in 1..Len(txs') : txs'[t].sellerListing = l
           \/ \E r \in BagToSet(reqs') :
                r.kind \in {"goLive", "createListing"} /\ r.listing = l
    ]_vars

(* C22: a Transaction whose payoutStatus is processing, completed or       *)
(* failed has its escrow released, and payoutStatus moves only from        *)
(* pending to processing and from processing to completed or failed.       *)
C22_PayoutLifecycle ==
  [][ \A t \in 1..Len(txs) :
        /\ txs'[t].payoutStatus \in {"processing", "completed", "failed"}
           => txs'[t].escrowStatus = "released"
        /\ txs'[t].payoutStatus # txs[t].payoutStatus
           => \/ txs[t].payoutStatus = "pending"
                 /\ txs'[t].payoutStatus = "processing"
              \/ txs[t].payoutStatus = "processing"
                 /\ txs'[t].payoutStatus \in {"completed", "failed"}
    ]_vars

C24_ListingStatusOneWay ==
  [][ \A l \in 1..Len(listings) :
        /\ listings[l].status \in {"cancelled", "expired", "matched", "sold"}
           => listings'[l].status \notin {"draft", "active"}
        /\ ( /\ listings[l].status \in {"matched", "sold"}
             /\ last'.op = "deleteListing"
             /\ last'.id = l
             /\ \A r \in InFlight : ~Leaves(r) )
           => /\ last'.result # "Listing deleted successfully"
              /\ listings' = listings
              /\ reqs' = reqs
    ]_vars

----------------------------------------------------------------------------
(* The two matchers next to buyers cancelling their offers and sellers     *)
(* deleting their listings.                                                *)

NextRace ==
  \/ \E in \in OfferInputs : CreateOffer(in)
  \/ \E r \in InFlight : CreateOfferMatch(r)
  \/ \E o \in 1..MaxOffers : CancelOfferRead(o)
  \/ \E r \in InFlight : CancelOfferSave(r)
  \/ \E in \in ListingInputs : CreateListing(in)
  \/ \E l \in 1..Len(listings) : DeleteListingRead(l)
  \/ \E r \in InFlight : DeleteListingSave(r)
  \/ SweepStart
  \/ \E r \in InFlight : SweepFind(r)
  \/ \E r \in InFlight : SweepMatch(r)
  \/ Tick

SpecRace == Init /\ [][NextRace]_vars

(* C25: a createMatch call made for an offer and a listing selected        *)
(* earlier, of which one is no longer active when the call runs, ends with *)
(* ConflictError, creates no Transaction, and changes no offer, listing or *)
(* hold.                                                                   *)
C25_SettlementRevalidates ==
  [][ \A r \in InFlight :
        ( /\ IsMatchCall(r)
          /\ Leaves(r)
          /\ \/ offers[r.offer].status # "active"
             \/ listings[SettledListing(r)].status # "active" )
        => /\ last'.result = "ConflictError"
           /\ txs' = txs
           /\ offers' = offers
           /\ listings' = listings
           /\ holds' = holds
    ]_vars

(* An instant match selected the only listing, the seller deleted it, and  *)
(* the settlement has just been refused.                                   *)
C25_Witness ==
  /\ last.op = "createOffer"
  /\ last.result = "ConflictError"
  /\ offers[last.id].status = "active"
  /\ Len(listings) = 1
  /\ listings[1].status = "cancelled"
  /\ txs = << >>

(* C26: an offer stored by createOffer has an expiresAt that is after the   *)
(* time of its creation.                                                   *)
C26_ExpiresInFuture ==
  [][ Len(offers') = Len(offers) + 1
      => offers'[Len(offers')].expiresAt > now
    ]_vars

(* C27: an acceptOffer that finds the offer still active with its hold     *)
(* already captured (an earlier capture took effect and its settlement did *)
(* not commit) is not refused for the capture: it commits, leaving the     *)
(* offer matched with exactly one Transaction and the hold captured once,  *)
(* or fails at the store again.                                            *)
C27_RetryAfterCapture ==
  [][ \A r \in InFlight :
        ( /\ r.kind = "acceptOffer"
          /\ Leaves(r)
          /\ offers[r.offer].status = "active"
          /\ holds[r.offer] = "captured" )
        => /\ holds' = holds
           /\ \/ /\ offers'[r.offer].status = "matched"
                 /\ Cardinality({ t \in 1..Len(txs') :
                                     txs'[t].buyerOffer = r.offer }) = 1
              \/ /\ last' = Reply("acceptOffer", r.offer, "commit failed")
                 /\ offers' = offers
                 /\ txs' = txs
    ]_vars

(* C28: in every reachable state a Transaction has hasDispute exactly when *)
(* its deliveryStatus is disputed.                                         *)
C28_DisputeFlagMatchesStatus ==
  \A t \in 1..Len(txs) :
    txs[t].hasDispute <=> txs[t].deliveryStatus = "disputed"

(* C29: for every Transaction whose offer's hold is captured, the amount   *)
(* captured equals the Transaction's buyerPaid, which equals its           *)
(* salePrice.                                                              *)
C29_CapturedEqualsPaid ==
  \A t \in 1..Len(txs) :
    holds[txs[t].buyerOffer] = "captured"
    => /\ AuthorizedAmount(offers[txs[t].buyerOffer]) = txs[t].buyerPaid
       /\ txs[t].buyerPaid = txs[t].salePrice

----------------------------------------------------------------------------
(* The listing lifecycle with bulk uploads.                                *)

NextLifecycle ==
  \/ NextListing
  \/ \E ins \in BulkInputs : BulkUpload(ins)

SpecLifecycle == InitListing /\ [][NextLifecycle]_vars

(* C30: in every reachable state an active listing has isLive true and a   *)
(* draft listing has isLive false.                                         *)
C30_LiveMatchesStatus ==
  \A l \in 1..Len(listings) :
    /\ listings[l].status = "active" => listings[l].isLive = TRUE
    /\ listings[l].status = "draft" => listings[l].isLive = FALSE

====
